---------------------------- MODULE Spec2Model ----------------------------
(***************************************************************************)
(* A model of articles_to_xlsx.py: the trend discovery call, the paginated *)
(* article search, the per-article extraction and classification           *)
(* functions and the assembly of the article_details.xlsx workbook.        *)
(*                                                                         *)
(* Python str values that the program inspects character by character      *)
(* (HTML fragments, aliases, labels, sheet names, the joined type) are     *)
(* sequences of one-character strings.  Values that are only compared for  *)
(* equality or passed through (identifiers, ids, titles, urls, tokens) are *)
(* TLA+ strings.  Python dicts are records; an absent key is a field that  *)
(* is not in the DOMAIN of the record.                                      *)
(***************************************************************************)
EXTENDS Integers, Sequences, FiniteSets, TLC

(***************************************************************************)
(* Bounds of the model.                                                     *)
(***************************************************************************)
\* longest trend list returned by discovery, and largest num_trends
MaxTrends == 2
\* most pages a single search receives when one search is explored alone
MaxPages == 4
\* most pages a search receives inside a whole run
MaxRunPages == 1
\* longest HTML fragment given to content extraction
MaxHtmlLen == 4
\* longest businessEvents list given to classification
MaxEvents == 2
\* longest commonTopics list given to classification
MaxTopics == 2

(***************************************************************************)
(* Program constants.                                                       *)
(***************************************************************************)
\* name[:31] in sanitize_sheet_name
MaxSheetNameLen == 31
\* time.sleep(1) between two pages
PageDelay == 1
\* time.sleep(2) at the end of a trend
TrendDelay == 2

regulatory_ids ==
    { "nlp/f/businessEvent/regulatory-changes",
      "nlp/f/businessEvent/regulatory-approvals" }
expert_id == "nlp/f/topic/6001"
conference_id == "nlp/f/businessEvent/participation-in-an-event"

Regulatory == << "R", "e", "g", "u", "l", "a", "t", "o", "r", "y" >>
Conferences == << "C", "o", "n", "f", "e", "r", "e", "n", "c", "e", "s" >>
ExpertMentions ==
    << "E", "x", "p", "e", "r", "t", " ", "M", "e", "n", "t", "i", "o", "n", "s" >>
CommaSpace == << ",", " " >>
SummarySheet == << "S", "u", "m", "m", "a", "r", "y" >>

\* Python None, as the value of a missing continuation or a missing id
NoneVal == "None"
\* the empty str
EmptyStr == ""

(***************************************************************************)
(* Helpers for dicts, lists and strs.                                       *)
(***************************************************************************)
\* d.get(k, dflt)
Get(d, k, dflt) == IF k \in DOMAIN d THEN d[k] ELSE dflt

Range(s) == { s[k] : k \in 1..Len(s) }

Min(a, b) == IF a < b THEN a ELSE b

\* the characters Python's str.strip() removes, among those of the model
Whitespace == { " ", "\t", "\n", "\r" }

\* s.replace(old, new) for one-character old and new
ReplaceChar(s, old, new) ==
    [ k \in 1..Len(s) |-> IF s[k] = old THEN new ELSE s[k] ]

\* s.replace('  ', ' '): one left-to-right pass over non-overlapping pairs
RECURSIVE ReplaceDoubleSpace(_)
ReplaceDoubleSpace(s) ==
    IF Len(s) < 2 THEN s
    ELSE IF s[1] = " " /\ s[2] = " "
         THEN << " " >> \o ReplaceDoubleSpace(SubSeq(s, 3, Len(s)))
         ELSE << s[1] >> \o ReplaceDoubleSpace(Tail(s))

\* s.strip()
RECURSIVE Strip(_)
Strip(s) ==
    IF s = << >> THEN s
    ELSE IF s[1] \in Whitespace THEN Strip(Tail(s))
    ELSE IF s[Len(s)] \in Whitespace THEN Strip(SubSeq(s, 1, Len(s) - 1))
    ELSE s

\* s.find(sub): the least index (from 0) where sub occurs in s, or -1
Find(s, sub) ==
    LET hits == { k \in 0..(Len(s) - Len(sub)) :
                      SubSeq(s, k + 1, k + Len(sub)) = sub }
    IN  IF hits = {} THEN -1
        ELSE CHOOSE k \in hits : \A h \in hits : k <= h

\* sep.join(parts)
RECURSIVE Join(_, _)
Join(parts, sep) ==
    IF parts = << >> THEN << >>
    ELSE IF Len(parts) = 1 THEN parts[1]
    ELSE parts[1] \o sep \o Join(Tail(parts), sep)

\* the orders in which iterating over a Python set may yield its elements
Orders(S) ==
    { p \in [ 1..Cardinality(S) -> S ] :
          \A a, b \in 1..Cardinality(S) : p[a] = p[b] => a = b }

(***************************************************************************)
(* strip_tags and RE_STRIP = '</?[^>]+>'.                                   *)
(***************************************************************************)
\* The index where a match of RE_STRIP that starts at s[1] ends, 0 when
\* there is none.  '[^>]+' cannot cross a '>', so a match is '<', one
\* character that is not '>', and everything up to the first '>'.
TagMatchEndSkipsClosing(s) ==
    IF Len(s) >= 3 /\ s[1] = "<" /\ s[2] \notin { ">", "/" }
          /\ \E j \in 3..Len(s) : s[j] = ">"
    THEN CHOOSE j \in 3..Len(s) :
             s[j] = ">" /\ \A h \in 3..(j - 1) : s[h] # ">"
    ELSE 0

TagMatchEnd(s) ==
    IF Len(s) >= 3 /\ s[1] = "<" /\ s[2] # ">"
          /\ \E j \in 3..Len(s) : s[j] = ">"
    THEN CHOOSE j \in 3..Len(s) :
             s[j] = ">" /\ \A h \in 3..(j - 1) : s[h] # ">"
    ELSE 0

\* re.sub(RE_STRIP, ' ', s): leftmost non-overlapping matches become ' '
RECURSIVE SubTags(_)
SubTags(s) ==
    IF s = << >> THEN s
    ELSE LET e == TagMatchEnd(s)
         IN  IF e # 0
             THEN << " " >> \o SubTags(SubSeq(s, e + 1, Len(s)))
             ELSE << s[1] >> \o SubTags(Tail(s))

strip_tags(html_content) ==
    IF html_content = << >> THEN << >>
    ELSE Strip(ReplaceDoubleSpace(
             ReplaceChar(ReplaceChar(SubTags(html_content), "\n", " "),
                         "\r", " ")))

(***************************************************************************)
(* extract_content, extract_url, get_human_date.                            *)
(***************************************************************************)
extract_content(article) ==
    IF Get(article, "fullContent", << >>) # << >>
    THEN strip_tags(article["fullContent"])
    ELSE IF "content" \in DOMAIN article
            /\ Get(article["content"], "content", << >>) # << >>
    THEN strip_tags(article["content"]["content"])
    ELSE IF "summary" \in DOMAIN article
            /\ Get(article["summary"], "content", << >>) # << >>
    THEN strip_tags(article["summary"]["content"])
    ELSE << >>

extract_url(article) ==
    IF Get(article, "canonicalUrl", EmptyStr) # EmptyStr
    THEN article["canonicalUrl"]
    ELSE LET alternates == Get(article, "alternate", << >>)
         IN  IF alternates # << >>
             THEN Get(alternates[1], "href", EmptyStr)
             ELSE EmptyStr

Digit(d) == << "0", "1", "2", "3", "4", "5", "6", "7", "8", "9" >>[d + 1]
TwoDigits(n) == << Digit((n \div 10) % 10), Digit(n % 10) >>
FourDigits(n) == TwoDigits(n \div 100) \o TwoDigits(n % 100)

\* datetime.utcfromtimestamp(int(unix_ms) / 1000).strftime(...).  unix_ms is
\* [int |-> n] when int(unix_ms) is n (n >= 0); any other value, for which
\* int() raises, has no int field and the function returns ''.
get_human_date(unix_ms) ==
    IF "int" \notin DOMAIN unix_ms THEN << >>
    ELSE LET secs == unix_ms["int"] \div 1000
             days == secs \div 86400
             rem  == secs % 86400
             z    == days + 719468
             era  == z \div 146097
             doe  == z - era * 146097
             yoe  == (doe - doe \div 1460 + doe \div 36524
                          - doe \div 146096) \div 365
             doy  == doe - (365 * yoe + yoe \div 4 - yoe \div 100)
             mp   == (5 * doy + 2) \div 153
             d    == doy - (153 * mp + 2) \div 5 + 1
             m    == IF mp < 10 THEN mp + 3 ELSE mp - 9
             y    == yoe + era * 400 + (IF m <= 2 THEN 1 ELSE 0)
         IN  FourDigits(y) \o << "-" >> \o TwoDigits(m) \o << "-" >>
                 \o TwoDigits(d) \o << " " >> \o TwoDigits(rem \div 3600)
                 \o << ":" >> \o TwoDigits((rem % 3600) \div 60)
                 \o << ":" >> \o TwoDigits(rem % 60)

(***************************************************************************)
(* extract_type.                                                            *)
(***************************************************************************)
\* what one businessEvents entry appends to types
EventTypes(be) ==
    (IF Get(be, "id", NoneVal) \in regulatory_ids
        THEN << Regulatory >> ELSE << >>)
    \o (IF Get(be, "id", NoneVal) = conference_id
        THEN << Conferences >> ELSE << >>)

\* what one commonTopics entry appends to types
TopicTypes(topic) ==
    IF Get(topic, "id", NoneVal) = expert_id
    THEN << ExpertMentions >> ELSE << >>

RECURSIVE EventsTypes(_)
EventsTypes(bes) ==
    IF bes = << >> THEN << >>
    ELSE EventTypes(bes[1]) \o EventsTypes(Tail(bes))

RECURSIVE TopicsTypes(_)
TopicsTypes(topics) ==
    IF topics = << >> THEN << >>
    ELSE TopicTypes(topics[1]) \o TopicsTypes(Tail(topics))

\* the list types at the end of the two loops
TypesList(article) ==
    EventsTypes(Get(article, "businessEvents", << >>))
    \o TopicsTypes(Get(article, "commonTopics", << >>))

\* ', '.join(types): the join without the set()
ExtractTypeNoSet(article) ==
    { Join(TypesList(article), CommaSpace) }

\* ', '.join(set(types)) if types else '': the iteration order of a set of
\* str is not fixed, so the function has one possible value per order.
extract_type(article) ==
    IF TypesList(article) = << >> THEN { << >> }
    ELSE { Join(p, CommaSpace) : p \in Orders(Range(TypesList(article))) }

(***************************************************************************)
(* sanitize_sheet_name.                                                     *)
(***************************************************************************)
IllegalSheetChars == { "[", "]", ":", "*", "?", "/", "\\" }

SanitizeNoRemoval(name) ==
    SubSeq(name, 1, Min(Len(name), MaxSheetNameLen))

sanitize_sheet_name(name) ==
    LET kept == SelectSeq(name, LAMBDA c : c \notin IllegalSheetChars)
    IN  SubSeq(kept, 1, Min(Len(kept), MaxSheetNameLen))

(***************************************************************************)
(* The values the upstream service and the config file can supply.         *)
(***************************************************************************)
\* continuation tokens of the search endpoint
Tokens == { "t1", "t2" }

ArticleRegExpert ==
    [ id |-> "a1", title |-> "First", crawled |-> [ int |-> 86400000 ],
      canonicalUrl |-> "https://one", alternate |-> << [ href |-> "alt" ] >>,
      fullContent |-> << "<", "p", ">", "a", "<", "/", "p", ">" >>,
      businessEvents |-> << [ id |-> "nlp/f/businessEvent/regulatory-changes" ],
                            [ id |-> "nlp/f/businessEvent/regulatory-approvals" ] >>,
      commonTopics |-> << [ id |-> expert_id ] >> ]

ArticleConference ==
    [ id |-> "a2", alternate |-> << [ href |-> "https://two" ] >>,
      content |-> [ content |-> << "b", "<", "b", "r", ">" >> ],
      businessEvents |-> << [ id |-> conference_id ], [ label |-> "x" ] >> ]

ArticlePlain ==
    [ title |-> "Third", summary |-> [ content |-> << "c", "\n", "d" >> ],
      commonTopics |-> << [ id |-> "nlp/f/topic/1874" ] >> ]

Articles == { ArticleRegExpert, ArticleConference, ArticlePlain }

RECURSIVE SeqsUpTo(_, _)
SeqsUpTo(S, n) ==
    IF n = 0 THEN { << >> }
    ELSE SeqsUpTo(S, n - 1)
         \cup { Append(s, x) : s \in { t \in SeqsUpTo(S, n - 1) : Len(t) = n - 1 },
                               x \in S }

\* the item lists a page can carry: none, one article, two articles
ItemLists ==
    { << >>, << ArticleRegExpert >>, << ArticleConference, ArticlePlain >> }

\* the JSON bodies of a successful search response: items with a token,
\* items without one, an empty token, and a token without items
SearchData ==
    { [ items |-> its, continuation |-> t ] : its \in ItemLists, t \in Tokens }
    \cup { [ items |-> its ] : its \in ItemLists }
    \cup { [ items |-> << >>, continuation |-> EmptyStr ],
           [ continuation |-> "t1" ] }

\* a search response: the request failed, or it returned a JSON body
SearchResponses ==
    { [ ok |-> FALSE ] } \cup { [ ok |-> TRUE, data |-> d ] : d \in SearchData }

Xs(n) == [ k \in 1..n |-> "x" ]

\* no aliases key, a label of blanks only
TrendBlank == [ label |-> << " ", " " >> ]
\* empty aliases, a label that needs trimming
TrendLabel == [ label |-> << " ", "A", "B", "\n" >>, aliases |-> << >> ]
\* a first alias with an illegal character
TrendSlash ==
    [ label |-> << "L" >>, aliases |-> << << "A", "/", "B" >>, << "C", "D" >> >> ]
\* no label key, an alias longer than a sheet name
TrendLong == [ aliases |-> << Xs(MaxSheetNameLen + 2) >> ]

TrendSet == { TrendBlank, TrendLabel, TrendSlash, TrendLong }

TrendLists == SeqsUpTo(TrendSet, MaxTrends)

(***************************************************************************)
(* State.                                                                   *)
(***************************************************************************)
VARIABLES
    mPc,                \* where main() is
    config,             \* the content of config.yaml
    discovery,          \* the outcome of the get_trends call
    trends,             \* main: trends
    i,                  \* main: the 1-based position in trends[:num_trends]
    aliases,            \* main: aliases
    label,              \* main: label
    articles,           \* main: articles, the value search_articles returned
    summary_rows,       \* main: summary_rows
    trend_data,         \* main: trend_data
    workbook,           \* the sheets of article_details.xlsx, << >> if not written
    error,              \* the exception that ended the run, "none" if none
    sPc,                \* where search_articles() is
    continuation,       \* search_articles: continuation
    last_continuation,  \* search_articles: last_continuation
    all_items,          \* search_articles: all_items
    sent,               \* the continuation parameter of each request of this search
    received,           \* the response to each request of this search
    searchedFor,        \* the positions of the trends a search request was issued for
    sinceRequest,       \* time slept since the last search request, -1 before the first
    tPc, tArticle, tType, tFirst,   \* classification of one article
    hPc, hArticle, hContent         \* content extraction of one article

mainVars ==
    << mPc, config, discovery, trends, i, aliases, label, articles,
       summary_rows, trend_data, workbook, error >>
searchVars ==
    << sPc, continuation, last_continuation, all_items, sent, received,
       searchedFor, sinceRequest >>
typeVars == << tPc, tArticle, tType, tFirst >>
htmlVars == << hPc, hArticle, hContent >>
vars == << mainVars, searchVars, typeVars, htmlVars >>

\* config.yaml: num_trends given, left to its default of 1, or no api_key
Configs ==
    { [ feedly |-> [ api_key |-> "key", num_trends |-> n ] ] : n \in 2..MaxTrends }
    \cup { [ feedly |-> [ api_key |-> "key" ] ],
           [ feedly |-> [ num_trends |-> 1 ] ] }

\* the state before main() runs
MainIdle ==
    /\ mPc = "idle" /\ config = [ feedly |-> [ api_key |-> "key" ] ]
    /\ discovery = "none" /\ trends = << >> /\ i = 1
    /\ aliases = << >> /\ label = << >> /\ articles = << >>
    /\ summary_rows = << >> /\ trend_data = << >> /\ workbook = << >>
    /\ error = "none"

SearchIdle ==
    /\ sPc = "idle" /\ continuation = NoneVal /\ last_continuation = NoneVal
    /\ all_items = << >> /\ sent = << >> /\ received = << >>
    /\ searchedFor = {} /\ sinceRequest = -1

TypeIdle ==
    /\ tPc = "idle" /\ tArticle = << >> /\ tType = << >> /\ tFirst = << >>

HtmlIdle ==
    /\ hPc = "idle" /\ hArticle = << >> /\ hContent = << >>

(***************************************************************************)
(* search_articles.                                                         *)
(***************************************************************************)
\* 'is not None' instead of truthiness
TruthyNotNone(token) == token # NoneVal

\* the truth value of a continuation: None and '' are false
Truthy(token) == token \notin { NoneVal, EmptyStr }

\* the continuation parameter of a request: req_params["continuation"] is
\* set only 'if continuation'; NoneVal stands for a request without it
RequestContinuation(cont) == IF Truthy(cont) THEN cont ELSE NoneVal

\* without the stall check
StopPagingOnMissingOnly(cont, last) == ~ Truthy(cont)

\* 'if not continuation or continuation == last_continuation: break'
StopPaging(cont, last) == ~ Truthy(cont) \/ cont = last

\* assigns the page instead of extending the list
ExtendReplaces(items, data) == Get(data, "items", << >>)

\* all_items.extend(data.get("items", []))
Extend(items, data) == items \o Get(data, "items", << >>)

\* the locals of search_articles before the loop
StartSearch ==
    /\ sPc' = "request"
    /\ continuation' = NoneVal
    /\ last_continuation' = NoneVal
    /\ all_items' = << >>
    /\ sent' = << >>
    /\ received' = << >>

\* requests.post(url, params=req_params, ...) is issued
SendRequest ==
    /\ sPc = "request"
    /\ sPc' = "await"
    /\ sent' = Append(sent, RequestContinuation(continuation))
    /\ searchedFor' = searchedFor \cup { i }
    /\ sinceRequest' = 0
    /\ UNCHANGED << continuation, last_continuation, all_items, received >>
    /\ UNCHANGED << mainVars, typeVars, htmlVars >>

\* the request raises (post, raise_for_status or json): print and break
ReceiveFailure ==
    /\ sPc = "await"
    /\ sPc' = "break"
    /\ received' = Append(received, [ ok |-> FALSE ])
    /\ UNCHANGED << continuation, last_continuation, all_items, sent,
                    searchedFor, sinceRequest >>
    /\ UNCHANGED << mainVars, typeVars, htmlVars >>

\* the request returns a JSON body: the rest of the loop body.  The service
\* sends at most cap pages: the last of them ends the paging.
ReceivePage(cap) ==
    /\ sPc = "await"
    /\ \E data \in SearchData :
         LET token == Get(data, "continuation", NoneVal)
         IN  /\ Len(received) + 1 < cap \/ StopPaging(token, continuation)
             /\ received' = Append(received, [ ok |-> TRUE, data |-> data ])
             /\ all_items' = Extend(all_items, data)
             /\ last_continuation' = continuation
             /\ continuation' = token
             /\ IF StopPaging(token, continuation)
                THEN /\ sPc' = "break"
                     /\ UNCHANGED sinceRequest
                ELSE /\ sPc' = "request"
                     /\ sinceRequest' = sinceRequest + PageDelay
    /\ UNCHANGED << sent, searchedFor >>
    /\ UNCHANGED << mainVars, typeVars, htmlVars >>

\* return all_items
SearchReturn ==
    /\ sPc = "break"
    /\ sPc' = "returned"
    /\ articles' = all_items
    /\ UNCHANGED << mPc, config, discovery, trends, i, aliases, label,
                    summary_rows, trend_data, workbook, error >>
    /\ UNCHANGED << continuation, last_continuation, all_items, sent, received,
                    searchedFor, sinceRequest >>
    /\ UNCHANGED << typeVars, htmlVars >>

(***************************************************************************)
(* main.                                                                    *)
(***************************************************************************)
\* config['feedly'].get('num_trends', 1)
NumTrends == Get(config["feedly"], "num_trends", 1)

\* len(trends[:num_trends]), for num_trends >= 0
LoopLength == Min(NumTrends, Len(trends))

\* load_config(): config['feedly']['api_key'] raises KeyError when absent
LoadConfig ==
    /\ mPc = "start"
    /\ IF "api_key" \in DOMAIN config["feedly"]
       THEN mPc' = "discover" /\ UNCHANGED error
       ELSE mPc' = "aborted" /\ error' = "KeyError"
    /\ UNCHANGED << config, discovery, trends, i, aliases, label, articles,
                    summary_rows, trend_data, workbook >>
    /\ UNCHANGED << searchVars, typeVars, htmlVars >>

\* get_trends(): response.raise_for_status() raises, main does not catch it
GetTrendsFails ==
    /\ mPc = "discover"
    /\ discovery' = "failed"
    /\ mPc' = "aborted"
    /\ error' = "HTTPError"
    /\ UNCHANGED << config, trends, i, aliases, label, articles,
                    summary_rows, trend_data, workbook >>
    /\ UNCHANGED << searchVars, typeVars, htmlVars >>

\* without 'if not trends: return'
GetTrendsReturnsNoEmptyCheck ==
    /\ mPc = "discover"
    /\ discovery' = "ok"
    /\ \E ts \in TrendLists :
         /\ trends' = ts
         /\ mPc' = "loop"
    /\ UNCHANGED << config, i, aliases, label, articles,
                    summary_rows, trend_data, workbook, error >>
    /\ UNCHANGED << searchVars, typeVars, htmlVars >>

\* get_trends() returns; 'if not trends: return'
GetTrendsReturns ==
    /\ mPc = "discover"
    /\ discovery' = "ok"
    /\ \E ts \in TrendLists :
         /\ trends' = ts
         /\ mPc' = IF ts = << >> THEN "done" ELSE "loop"
    /\ UNCHANGED << config, i, aliases, label, articles,
                    summary_rows, trend_data, workbook, error >>
    /\ UNCHANGED << searchVars, typeVars, htmlVars >>

\* trend.get('label', '').strip()
TrendLabelOf(trend) == Strip(Get(trend, "label", << >>))

\* uses the label even when it is blank
ResolveAliasesKeepsBlank(trend) ==
    IF Get(trend, "aliases", << >>) # << >>
    THEN Get(trend, "aliases", << >>)
    ELSE << TrendLabelOf(trend) >>

\* aliases after 'if not aliases: aliases = [label] if label else []'
ResolveAliases(trend) ==
    IF Get(trend, "aliases", << >>) # << >>
    THEN Get(trend, "aliases", << >>)
    ELSE IF TrendLabelOf(trend) # << >>
         THEN << TrendLabelOf(trend) >>
         ELSE << >>

\* the loop body up to 'continue' for a trend without label or aliases
SkipTrend ==
    /\ mPc = "loop" /\ i <= LoopLength
    /\ ResolveAliases(trends[i]) = << >>
    /\ aliases' = << >>
    /\ label' = TrendLabelOf(trends[i])
    /\ i' = i + 1
    /\ UNCHANGED << mPc, config, discovery, trends, articles,
                    summary_rows, trend_data, workbook, error >>
    /\ UNCHANGED << searchVars, typeVars, htmlVars >>

\* the loop body up to the call of search_articles
BeginTrend ==
    /\ mPc = "loop" /\ i <= LoopLength
    /\ ResolveAliases(trends[i]) # << >>
    /\ aliases' = ResolveAliases(trends[i])
    /\ label' = TrendLabelOf(trends[i])
    /\ mPc' = "searching"
    /\ StartSearch
    /\ UNCHANGED << config, discovery, trends, i, articles,
                    summary_rows, trend_data, workbook, error >>
    /\ UNCHANGED << searchedFor, sinceRequest >>
    /\ UNCHANGED << typeVars, htmlVars >>

\* search_articles has returned: its locals are gone
EndSearch ==
    /\ sPc' = "idle"
    /\ continuation' = NoneVal
    /\ last_continuation' = NoneVal
    /\ all_items' = << >>
    /\ sent' = << >>
    /\ received' = << >>

\* 'if not articles: ... continue'
SkipEmptyTrend ==
    /\ mPc = "searching" /\ sPc = "returned"
    /\ articles = << >>
    /\ mPc' = "loop"
    /\ i' = i + 1
    /\ EndSearch
    /\ UNCHANGED << config, discovery, trends, aliases, label, articles,
                    summary_rows, trend_data, workbook, error >>
    /\ UNCHANGED << searchedFor, sinceRequest >>
    /\ UNCHANGED << typeVars, htmlVars >>

\* the values extract_type can return for each article of arts, in order;
\* within one run the calls for the same article return the same value,
\* since the set is built from the same list in the same process
RECURSIVE TypeChoices(_)
TypeChoices(arts) ==
    IF arts = << >> THEN { << >> }
    ELSE { << t >> \o rest :
               t \in extract_type(arts[1]), rest \in TypeChoices(Tail(arts)) }

\* counts the articles whose type equals the category
CountTypeEquals(types, category) ==
    Cardinality({ k \in 1..Len(types) : types[k] = category })

\* sum(1 for a in articles if extract_type(a, ...).find(category) != -1)
CountType(types, category) ==
    Cardinality({ k \in 1..Len(types) : Find(types[k], category) # -1 })

\* the list appended to summary_rows, with the DataFrame's column names
SummaryRow(als, arts, types) ==
    [ Aliases |-> Join(als, CommaSpace),
      TotalArticles |-> Len(arts),
      RegulatoryArticles |-> CountType(types, Regulatory),
      ExpertMentions |-> CountType(types, ExpertMentions),
      Conferences |-> CountType(types, Conferences) ]

\* the dict appended to rows for one article
DetailRow(article, type) ==
    [ id |-> Get(article, "id", EmptyStr),
      title |-> Get(article, "title", EmptyStr),
      crawled |-> get_human_date(Get(article, "crawled", [ str |-> EmptyStr ])),
      url |-> extract_url(article),
      content |-> extract_content(article),
      type |-> type ]

\* the rest of the loop body for a trend with articles, time.sleep(2) included
RecordTrend ==
    /\ mPc = "searching" /\ sPc = "returned"
    /\ articles # << >>
    /\ \E types \in TypeChoices(articles) :
         /\ summary_rows' =
                Append(summary_rows, SummaryRow(aliases, articles, types))
         /\ trend_data' =
                Append(trend_data,
                       [ sheet |-> sanitize_sheet_name(aliases[1]),
                         rows |-> [ k \in 1..Len(articles) |->
                                        DetailRow(articles[k], types[k]) ] ])
    /\ sinceRequest' = sinceRequest + TrendDelay
    /\ mPc' = "loop"
    /\ i' = i + 1
    /\ EndSearch
    /\ UNCHANGED << config, discovery, trends, aliases, label, articles,
                    workbook, error >>
    /\ UNCHANGED searchedFor
    /\ UNCHANGED << typeVars, htmlVars >>

\* always adds a new sheet, as if no sheet had the name
ToExcelAlwaysNew(book, sheet_name, rows) ==
    Append(book, [ name |-> sheet_name, rows |-> rows ])

\* df.to_excel(writer, sheet_name=...): the writer adds a sheet for a new
\* name; for a name the workbook already has it writes the table over the
\* cells of that sheet, and the rows below the table stay as they were
ToExcel(book, sheet_name, rows) ==
    IF \E k \in 1..Len(book) : book[k].name = sheet_name
    THEN [ k \in 1..Len(book) |->
             IF book[k].name = sheet_name
             THEN [ name |-> sheet_name,
                    rows |-> rows \o SubSeq(book[k].rows, Len(rows) + 1,
                                            Len(book[k].rows)) ]
             ELSE book[k] ]
    ELSE Append(book, [ name |-> sheet_name, rows |-> rows ])

\* 'for sheet, rows in trend_data: df.to_excel(...)'
RECURSIVE WriteTrendSheets(_, _)
WriteTrendSheets(book, data) ==
    IF data = << >> THEN book
    ELSE WriteTrendSheets(ToExcel(book, data[1].sheet, data[1].rows), Tail(data))

\* the end of the loop and the 'with pd.ExcelWriter(...)' block
WriteWorkbook ==
    /\ mPc = "loop" /\ i > LoopLength
    /\ workbook' = WriteTrendSheets(ToExcel(<< >>, SummarySheet, summary_rows),
                                    trend_data)
    /\ mPc' = "done"
    /\ UNCHANGED << config, discovery, trends, i, aliases, label, articles,
                    summary_rows, trend_data, error >>
    /\ UNCHANGED << searchVars, typeVars, htmlVars >>

(***************************************************************************)
(* A run of the program.                                                    *)
(***************************************************************************)
Init ==
    /\ mPc = "start" /\ config \in Configs
    /\ discovery = "none" /\ trends = << >> /\ i = 1
    /\ aliases = << >> /\ label = << >> /\ articles = << >>
    /\ summary_rows = << >> /\ trend_data = << >> /\ workbook = << >>
    /\ error = "none"
    /\ SearchIdle /\ TypeIdle /\ HtmlIdle

Next ==
    \/ LoadConfig
    \/ GetTrendsFails
    \/ GetTrendsReturns
    \/ SkipTrend
    \/ BeginTrend
    \/ SendRequest
    \/ ReceiveFailure
    \/ ReceivePage(MaxRunPages)
    \/ SearchReturn
    \/ SkipEmptyTrend
    \/ RecordTrend
    \/ WriteWorkbook

Spec == Init /\ [][Next]_vars

(***************************************************************************)
(* One call of search_articles, with more pages.                            *)
(***************************************************************************)
InitSearch ==
    /\ mPc = "searching" /\ config = [ feedly |-> [ api_key |-> "key" ] ]
    /\ discovery = "ok" /\ trends = << TrendSlash >> /\ i = 1
    /\ aliases = ResolveAliases(TrendSlash) /\ label = TrendLabelOf(TrendSlash)
    /\ articles = << >>
    /\ summary_rows = << >> /\ trend_data = << >> /\ workbook = << >>
    /\ error = "none"
    /\ sPc = "request" /\ continuation = NoneVal /\ last_continuation = NoneVal
    /\ all_items = << >> /\ sent = << >> /\ received = << >>
    /\ searchedFor = {} /\ sinceRequest = -1
    /\ TypeIdle /\ HtmlIdle

NextSearch ==
    \/ SendRequest
    \/ ReceiveFailure
    \/ ReceivePage(MaxPages)
    \/ SearchReturn

SpecSearch == InitSearch /\ [][NextSearch]_vars

(***************************************************************************)
(* extract_type on its own: one article is classified, its entries are     *)
(* reordered or repeated, and it is classified again.                       *)
(***************************************************************************)
EventEntries ==
    { [ id |-> x ] : x \in regulatory_ids \cup { conference_id, expert_id,
                                                "nlp/f/businessEvent/other" } }
    \cup { [ label |-> "no id" ] }

TopicEntries ==
    { [ id |-> expert_id ], [ id |-> conference_id ], [ label |-> "no id" ] }

TypeArticles ==
    { [ businessEvents |-> bes, commonTopics |-> tps ] :
          bes \in SeqsUpTo(EventEntries, MaxEvents),
          tps \in SeqsUpTo(TopicEntries, MaxTopics) }
    \cup { [ businessEvents |-> bes ] : bes \in SeqsUpTo(EventEntries, MaxEvents) }
    \cup { [ commonTopics |-> tps ] : tps \in SeqsUpTo(TopicEntries, MaxTopics) }
    \cup { [ id |-> "a" ] }

InitType ==
    /\ tPc = "ready" /\ tArticle \in TypeArticles
    /\ tType = << >> /\ tFirst = << >>
    /\ MainIdle /\ SearchIdle /\ HtmlIdle

\* extract_type(tArticle, ...) returns; tFirst keeps the first value returned
Classify ==
    /\ tPc = "ready"
    /\ tPc' = "classified"
    /\ \E t \in extract_type(tArticle) :
         /\ tType' = t
         /\ tFirst' = IF tFirst = << >> THEN << t >> ELSE tFirst
    /\ UNCHANGED tArticle
    /\ UNCHANGED << mainVars, searchVars, htmlVars >>

Swap(s, k) ==
    [ j \in 1..Len(s) |-> IF j = k THEN s[k + 1] ELSE IF j = k + 1 THEN s[k] ELSE s[j] ]

\* the same article with two neighbouring entries of a list exchanged
Reorder ==
    /\ tPc = "classified"
    /\ tPc' = "ready"
    /\ \E f \in DOMAIN tArticle \cap { "businessEvents", "commonTopics" } :
         \E k \in 1..(Len(tArticle[f]) - 1) :
             tArticle' = [ tArticle EXCEPT ![f] = Swap(@, k) ]
    /\ UNCHANGED << tType, tFirst >>
    /\ UNCHANGED << mainVars, searchVars, htmlVars >>

\* the same article with one entry of a list repeated
Repeat ==
    /\ tPc = "classified"
    /\ tPc' = "ready"
    /\ \E f \in DOMAIN tArticle \cap { "businessEvents", "commonTopics" } :
         /\ Len(tArticle[f]) < (IF f = "businessEvents" THEN MaxEvents ELSE MaxTopics)
         /\ \E k \in 1..Len(tArticle[f]) :
                tArticle' = [ tArticle EXCEPT ![f] = Append(@, @[k]) ]
    /\ UNCHANGED << tType, tFirst >>
    /\ UNCHANGED << mainVars, searchVars, htmlVars >>

NextType == Classify \/ Reorder \/ Repeat

SpecType == InitType /\ [][NextType]_vars

(***************************************************************************)
(* extract_content on its own.                                              *)
(***************************************************************************)
HtmlChars == { "<", ">", "/", "a", " ", "\n", "\r", "\t" }

HtmlFragments == SeqsUpTo(HtmlChars, MaxHtmlLen)

Decoy == << "<", "i", ">", "z" >>

\* articles whose first non-empty candidate is h, or Decoy when h is empty
HtmlArticles ==
    { [ fullContent |-> h, content |-> [ content |-> Decoy ] ] : h \in HtmlFragments }
    \cup { [ content |-> [ content |-> h ], summary |-> [ content |-> Decoy ] ] :
               h \in HtmlFragments }
    \cup { [ fullContent |-> << >>, content |-> [ title |-> "t" ],
             summary |-> [ content |-> h ] ] : h \in HtmlFragments }

InitHtml ==
    /\ hPc = "ready" /\ hArticle \in HtmlArticles /\ hContent = << >>
    /\ MainIdle /\ SearchIdle /\ TypeIdle

\* extract_content(hArticle) returns
ExtractContent ==
    /\ hPc = "ready"
    /\ hPc' = "extracted"
    /\ hContent' = extract_content(hArticle)
    /\ UNCHANGED hArticle
    /\ UNCHANGED << mainVars, searchVars, typeVars >>

NextHtml == ExtractContent

SpecHtml == InitHtml /\ [][NextHtml]_vars

(***************************************************************************)
(* Properties of search_articles.                                           *)
(***************************************************************************)
\* the token the k-th response of this search returned, NoneVal if none
TokenOf(k) ==
    IF received[k].ok THEN Get(received[k].data, "continuation", NoneVal)
    ELSE NoneVal

\* the k-th response omits the token, returns an empty one, or returns the
\* token the response before it returned
EndsResults(k) ==
    /\ received[k].ok
    /\ \/ TokenOf(k) \in { NoneVal, EmptyStr }
       \/ k > 1 /\ TokenOf(k) = TokenOf(k - 1)

\* the items of the pages received successfully, in the order of arrival
RECURSIVE PagesItems(_)
PagesItems(pages) ==
    IF pages = << >> THEN << >>
    ELSE PagesItems(SubSeq(pages, 1, Len(pages) - 1))
         \o (IF pages[Len(pages)].ok /\ "items" \in DOMAIN pages[Len(pages)].data
             THEN pages[Len(pages)].data["items"] ELSE << >>)

\* C1: the first request of a search carries no continuation token, every
\* later request carries exactly the token the response before it returned,
\* and after a response that omits the token, returns an empty one or
\* returns the token of the response before it, no further request is
\* issued and the search ends without an error.
C1_TokenChain ==
    sPc # "idle" =>
        /\ Len(sent) \in { Len(received), Len(received) + 1 }
        /\ \A k \in 1..Len(sent) :
             IF k = 1 THEN sent[k] = NoneVal
             ELSE /\ sent[k] = TokenOf(k - 1)
                  /\ sent[k] \notin { NoneVal, EmptyStr }
        /\ \A k \in 1..Len(received) :
             EndsResults(k) =>
                 /\ k = Len(received) /\ Len(sent) = k
                 /\ sPc \in { "break", "returned" }
                 /\ error = "none"

\* C1 witness: a search that ended because the third response returned the
\* token of the second
C1_Witness ==
    /\ sPc = "returned" /\ Len(sent) = 3 /\ Len(received) = 3
    /\ TokenOf(2) \in Tokens /\ TokenOf(3) = TokenOf(2)

\* C2: the value search_articles returns is the concatenation, in the order
\* of arrival and with duplicates kept, of the items of the pages received
\* successfully; a failed request is the last one of the search, keeps the
\* items accumulated so far and raises nothing.
C2_ReturnsConcatenation ==
    sPc # "idle" =>
        /\ all_items = PagesItems(received)
        /\ sPc = "returned" => articles = PagesItems(received)
        /\ \A k \in 1..Len(received) :
             ~ received[k].ok =>
                 /\ k = Len(received) /\ Len(sent) = k
                 /\ sPc \in { "break", "returned" }
                 /\ error = "none"

\* C2 witness: a search that returned the same article twice, from two
\* pages, after its third request failed
C2_Witness ==
    /\ sPc = "returned" /\ Len(received) = 3 /\ ~ received[3].ok
    /\ Len(articles) = 2 /\ articles[1] = articles[2]

\* C10 as claimed: once a response omits the token or returns a token that a
\* response of this search has already returned, no further request is issued.
C10_StopsOnAnyRepeatedToken ==
    sPc # "idle" =>
        \A k \in 1..Len(received) :
            ( /\ received[k].ok
              /\ \/ TokenOf(k) \in { NoneVal, EmptyStr }
                 \/ \E j \in 1..(k - 1) : TokenOf(j) = TokenOf(k) )
            => Len(sent) <= k

\* C10 amended: the loop goes on to another request exactly after a response
\* that succeeded with a non-empty token different from the token of the
\* response before it; a failure, a missing or empty token and a token equal
\* to the one before it end the loop, a token returned earlier does not.
C10_EndsExactlyOnStall ==
    sPc # "idle" =>
        \A k \in 1..Len(received) :
            ( /\ received[k].ok
              /\ TokenOf(k) \notin { NoneVal, EmptyStr }
              /\ k > 1 => TokenOf(k) # TokenOf(k - 1) )
            <=> ( \/ Len(sent) > k
                  \/ k = Len(received) /\ sPc = "request" )

\* C10 witness: the third response returns the token of the first one again
\* and a fourth request follows
C10_Witness ==
    /\ Len(received) >= 3 /\ Len(sent) >= 4
    /\ TokenOf(1) \in Tokens /\ TokenOf(3) = TokenOf(1)

(***************************************************************************)
(* Properties of a run.                                                     *)
(***************************************************************************)
\* the trend has a search term: aliases, or a label that is not all blanks
Usable(trend) ==
    \/ "aliases" \in DOMAIN trend /\ Len(trend["aliases"]) > 0
    \/ "label" \in DOMAIN trend
         /\ \E k \in 1..Len(trend["label"]) : trend["label"][k] \notin Whitespace

\* the number of rows of a detail table whose type contains the category
RowsWith(rows, category) ==
    Cardinality({ j \in 1..Len(rows) :
        \E k \in 1..(Len(rows[j].type) - Len(category) + 1) :
            SubSeq(rows[j].type, k, k + Len(category) - 1) = category })

\* C3: summary_rows and trend_data have the same length, and the k-th
\* summary row describes the k-th detail table: the total is its number of
\* rows, at least 1, and each category count is the number of its rows whose
\* type contains the category; the table built last has one row per article
\* of the search it was built from, in the same order.
C3_SummaryDescribesDetail ==
    /\ Len(summary_rows) = Len(trend_data)
    /\ \A k \in 1..Len(summary_rows) :
         LET row == summary_rows[k]
             rows == trend_data[k].rows
         IN  /\ row.TotalArticles = Len(rows)
             /\ Len(rows) >= 1
             /\ row.RegulatoryArticles = RowsWith(rows, Regulatory)
             /\ row.ExpertMentions = RowsWith(rows, ExpertMentions)
             /\ row.Conferences = RowsWith(rows, Conferences)
    /\ (mPc \in { "loop", "done" } /\ articles # << >>) =>
         /\ trend_data # << >>
         /\ LET rows == trend_data[Len(trend_data)].rows
            IN  /\ Len(rows) = Len(articles)
                /\ \A j \in 1..Len(rows) :
                     /\ rows[j].id = Get(articles[j], "id", EmptyStr)
                     /\ rows[j].title = Get(articles[j], "title", EmptyStr)

\* C3 witness: two trends were recorded, the first with a single article
\* that counts as Regulatory and as Expert Mentions, the second with two
\* articles
C3_Witness ==
    /\ Len(summary_rows) = 2
    /\ summary_rows[1].TotalArticles = 1
    /\ summary_rows[1].RegulatoryArticles = 1
    /\ summary_rows[1].ExpertMentions = 1
    /\ summary_rows[2].TotalArticles = 2
    /\ summary_rows[2].Conferences = 1

\* C4: among trends[:num_trends], a trend adds a summary row and a detail
\* table exactly when it has a search term and its search returned an
\* article; a trend without a search term is passed over with no search
\* request, a trend whose search returned nothing adds nothing, and in both
\* cases the loop goes on with the next trend without an error.
C4_ContributesIff ==
    /\ [](/\ searchedFor \subseteq { k \in 1..LoopLength : Usable(trends[k]) }
          /\ mPc = "searching" => i <= LoopLength /\ Usable(trends[i]))
    /\ [][ LET added == IF /\ mPc = "searching" /\ mPc' = "loop"
                           /\ Usable(trends[i]) /\ articles # << >>
                        THEN 1 ELSE 0
           IN  /\ Len(summary_rows') = Len(summary_rows) + added
               /\ Len(trend_data') = Len(trend_data) + added
               /\ (mPc = "loop" /\ i <= LoopLength /\ ~ Usable(trends[i])) =>
                    /\ mPc' = "loop" /\ i' = i + 1
                    /\ searchedFor' = searchedFor /\ sent' = sent
                    /\ error' = "none"
               /\ (mPc = "searching" /\ sPc = "returned" /\ articles = << >>) =>
                    /\ mPc' = "loop" /\ i' = i + 1
                    /\ error' = "none" ]_vars

\* C4 witness: of two trends the first had no search term and was not
\* searched for, the second was searched for and recorded
C4_Witness ==
    /\ mPc = "done" /\ LoopLength = 2
    /\ ~ Usable(trends[1]) /\ searchedFor = { 2 }
    /\ Len(summary_rows) = 1 /\ Len(trend_data) = 1

\* C5: a search request is issued or the workbook written only after the
\* configuration gave an API key and discovery returned a non-empty trend
\* list; without an API key the run aborts before any network call, a failed
\* discovery call aborts the run, and an empty trend list ends the run
\* normally with nothing written.
C5_NothingWithoutKeyAndTrends ==
    /\ (searchedFor # {} \/ workbook # << >>) =>
         /\ "api_key" \in DOMAIN config["feedly"]
         /\ discovery = "ok"
         /\ trends # << >>
    /\ "api_key" \notin DOMAIN config["feedly"] =>
         /\ discovery = "none" /\ searchedFor = {}
         /\ mPc \in { "start", "aborted" }
         /\ mPc = "aborted" => error = "KeyError"
    /\ discovery = "failed" => mPc = "aborted" /\ error = "HTTPError"
    /\ (discovery = "ok" /\ trends = << >>) => mPc = "done" /\ error = "none"
    /\ error # "none" <=> mPc = "aborted"

\* C5 witness: discovery returned an empty trend list and the run is over
C5_Witness ==
    /\ mPc = "done" /\ discovery = "ok" /\ trends = << >>
    /\ workbook = << >> /\ error = "none"

\* C6 as claimed: the workbook has the Summary sheet and then one sheet per
\* summary row, the k-th of them holding the detail rows of the k-th
\* recorded trend.
C6_OneSheetPerTrend ==
    workbook # << >> =>
        /\ workbook[1].name = SummarySheet
        /\ Len(workbook) - 1 = Len(summary_rows)
        /\ \A k \in 1..Len(trend_data) : workbook[k + 1].rows = trend_data[k].rows

\* the sheet names of the recorded trends differ from each other and from
\* the name of the summary sheet
DistinctSheetNames ==
    /\ \A k \in 1..Len(trend_data) : trend_data[k].sheet # SummarySheet
    /\ \A j, k \in 1..Len(trend_data) :
         trend_data[j].sheet = trend_data[k].sheet => j = k

\* C6 amended: the first sheet is Summary, the others are one per distinct
\* sheet name other than Summary among the recorded trends, in the order in
\* which the names first occur, so there are at most as many as summary
\* rows; when the names differ from each other and from Summary there is one
\* per summary row and the k-th holds the detail rows of the k-th trend.
C6_OneSheetPerDistinctName ==
    workbook # << >> =>
        /\ workbook[1].name = SummarySheet
        /\ \A j, k \in 1..Len(workbook) : workbook[j].name = workbook[k].name => j = k
        /\ { workbook[k].name : k \in 2..Len(workbook) }
             = { trend_data[k].sheet : k \in 1..Len(trend_data) } \ { SummarySheet }
        /\ \A j, k \in 2..Len(workbook) :
             j < k =>
               \E a \in 1..Len(trend_data) :
                   /\ trend_data[a].sheet = workbook[j].name
                   /\ \A b \in 1..Len(trend_data) :
                        trend_data[b].sheet = workbook[k].name => a < b
        /\ Len(workbook) - 1 <= Len(summary_rows)
        /\ DistinctSheetNames =>
             /\ Len(workbook) - 1 = Len(summary_rows)
             /\ workbook[1].rows = summary_rows
             /\ \A k \in 1..Len(trend_data) :
                  /\ workbook[k + 1].name = trend_data[k].sheet
                  /\ workbook[k + 1].rows = trend_data[k].rows

\* C6 witness: a workbook with the sheets of two recorded trends whose names
\* differ
C6_Witness ==
    /\ Len(workbook) = 3 /\ Len(trend_data) = 2
    /\ DistinctSheetNames

\* C9: a search request is the first of the run, or follows the request
\* before it after a pause: of PageDelay within a search, of TrendDelay
\* between the searches of two trends.
C9_PauseBeforeEveryRequest ==
    [][ Len(sent') = Len(sent) + 1 =>
          \/ sinceRequest = -1
          \/ Len(sent) > 0 /\ sinceRequest = PageDelay
          \/ Len(sent) = 0 /\ sinceRequest = TrendDelay ]_vars

(***************************************************************************)
(* Properties of extract_type and of extract_content.                       *)
(***************************************************************************)
\* how many times sub occurs in s
Occurrences(s, sub) ==
    Cardinality({ k \in 1..(Len(s) - Len(sub) + 1) :
                      SubSeq(s, k, k + Len(sub) - 1) = sub })

\* some entry of the list has an id among ids
SomeEntryIn(entries, ids) ==
    \E k \in 1..Len(entries) :
        "id" \in DOMAIN entries[k] /\ entries[k]["id"] \in ids

\* the categories the entries of the article contribute
MatchedCategories(article) ==
    LET bes == IF "businessEvents" \in DOMAIN article
               THEN article["businessEvents"] ELSE << >>
        tps == IF "commonTopics" \in DOMAIN article
               THEN article["commonTopics"] ELSE << >>
    IN  (IF SomeEntryIn(bes, regulatory_ids) THEN { Regulatory } ELSE {})
        \cup (IF SomeEntryIn(bes, { conference_id }) THEN { Conferences } ELSE {})
        \cup (IF SomeEntryIn(tps, { expert_id }) THEN { ExpertMentions } ELSE {})

=============================================================================
